---------------------------- MODULE Spec2Model ----------------------------
(***************************************************************************)
(* Model of the issue fetcher (src/fetch_issues.py): the GitHub client,    *)
(* the issue classifier, and fetch_all, the sequential fetch / aggregate / *)
(* write run.                                                              *)
(*                                                                         *)
(* Conventions.                                                            *)
(*  - A Python dict is a TLA+ function on its keys; d.get(k, default) is   *)
(*    Get(d, k, default) and "k in d" is k \in DOMAIN d.                   *)
(*  - A label string is the sequence of its characters, so that lower()   *)
(*    and the substring test "x in l" are computed, not assumed.           *)
(*  - A JSON value returned by GitHub.get is tagged with its Python type   *)
(*    ([type |-> "list", v |-> ...] or [type |-> "dict", v |-> ...]),      *)
(*    because [] and {} are the same TLA+ value.                           *)
(*  - Time is counted in hours since an arbitrary epoch.                   *)
(***************************************************************************)
EXTENDS Integers, Sequences, FiniteSets, TLC

VARIABLES
    cfg,               \* content of data/repos.json: config["categories"], in file order
    now,               \* the wall clock (UTC), in hours
    pc,                \* position of fetch_all
    repo_to_category,  \* fetch_all: repo -> <<cat_key, cat_label>>
    unique_repos,      \* fetch_all: list(repo_to_category.keys())
    idx,               \* fetch_all: 1-based position of the loop in unique_repos
    remaining,         \* GitHub.remaining
    all_issues,        \* fetch_all: list of issue records
    issues_by_repo,    \* fetch_all: repo -> list of issue records
    repo_stats,        \* fetch_all: repo -> per-repo stats
    stats,             \* fetch_all: the aggregate stats dict (NoStats until computed)
    files,             \* the three output files; each the sequence of JSON documents it holds
    inflight,          \* HTTP requests sent and not yet answered
    reqlog,            \* history: every request sent, in order
    raw_by_repo,       \* history: repo -> the item list the issues endpoint answered with
    proc_time,         \* history: repo -> the clock when its issues were processed
    prior_files,       \* history: the output files as the run found them
    failed_requests,   \* history: the requests GitHub.get answered from an except branch
    last_call,         \* history: summary of the latest GitHub.get call
    slept,             \* history: milliseconds slept since the latest request was sent
    last_gap           \* history: milliseconds slept between the latest request and the one before

vars == << cfg, now, pc, repo_to_category, unique_repos, idx, remaining, all_issues,
           issues_by_repo, repo_stats, stats, files, inflight, reqlog, raw_by_repo,
           proc_time, prior_files, failed_requests, last_call, slept, last_gap >>

-----------------------------------------------------------------------------
(* Bounds of the model *)

\* The largest number of open items a repository holds on the server.
MaxServerIssues == 31
\* How many hours the clock may advance during a run.
MaxTicks == 1

-----------------------------------------------------------------------------
(* Program constants *)

MAX_ISSUES_PER_REPO == 30
LOOKBACK_DAYS_NEW == 7
\* 0.5 seconds, in milliseconds
REQUEST_DELAY == 500

(* Keyword lists of classify_issue and sample label names *)

BUG_WORDS ==
    { <<"b", "u", "g">>,
      <<"d", "e", "f", "e", "c", "t">>,
      <<"e", "r", "r", "o", "r">>,
      <<"r", "e", "g", "r", "e", "s", "s", "i", "o", "n">> }

FEATURE_WORDS ==
    { <<"e", "n", "h", "a", "n", "c", "e", "m", "e", "n", "t">>,
      <<"f", "e", "a", "t", "u", "r", "e">>,
      <<"p", "r", "o", "p", "o", "s", "a", "l">> }

SECURITY_WORDS ==
    { <<"s", "e", "c", "u", "r", "i", "t", "y">>,
      <<"v", "u", "l", "n", "e", "r", "a", "b", "i", "l", "i", "t", "y">>,
      <<"c", "v", "e">> }

GOOD_FIRST_ISSUE_LABELS ==
    { <<"g", "o", "o", "d", " ", "f", "i", "r", "s", "t", " ", "i", "s", "s", "u", "e">>,
      <<"g", "o", "o", "d", "-", "f", "i", "r", "s", "t", "-", "i", "s", "s", "u", "e">>,
      <<"e", "a", "s", "y">>,
      <<"b", "e", "g", "i", "n", "n", "e", "r">>,
      <<"s", "t", "a", "r", "t", "e", "r">>,
      <<"f", "i", "r", "s", "t", "-", "t", "i", "m", "e", "r", "s", "-", "o", "n", "l", "y">>,
      <<"h", "e", "l", "p", " ", "w", "a", "n", "t", "e", "d">>,
      <<"u", "p", "-", "f", "o", "r", "-", "g", "r", "a", "b", "s">> }

HELP_WANTED_WORDS ==
    { <<"h", "e", "l", "p", " ", "w", "a", "n", "t", "e", "d">>,
      <<"h", "e", "l", "p", "-", "w", "a", "n", "t", "e", "d">> }

L_Bug == <<"B", "u", "g">>

L_Security == <<"t", "y", "p", "e", ":", " ", "S", "e", "c", "u", "r", "i", "t", "y">>

L_CVE == <<"C", "V", "E", "-", "2", "0", "2", "4">>

L_Enhancement == <<"e", "n", "h", "a", "n", "c", "e", "m", "e", "n", "t">>

L_HelpWanted == <<"H", "e", "l", "p", " ", "W", "a", "n", "t", "e", "d">>

L_GoodFirst == <<"g", "o", "o", "d", "-", "f", "i", "r", "s", "t", "-", "i", "s", "s", "u", "e">>

L_Docs == <<"d", "o", "c", "s">>

L_Debugger == <<"d", "e", "b", "u", "g", "g", "e", "r">>

LowerChar(c) ==
    CASE c = "A" -> "a"
      [] c = "B" -> "b"
      [] c = "C" -> "c"
      [] c = "D" -> "d"
      [] c = "E" -> "e"
      [] c = "F" -> "f"
      [] c = "G" -> "g"
      [] c = "H" -> "h"
      [] c = "I" -> "i"
      [] c = "J" -> "j"
      [] c = "K" -> "k"
      [] c = "L" -> "l"
      [] c = "M" -> "m"
      [] c = "N" -> "n"
      [] c = "O" -> "o"
      [] c = "P" -> "p"
      [] c = "Q" -> "q"
      [] c = "R" -> "r"
      [] c = "S" -> "s"
      [] c = "T" -> "t"
      [] c = "U" -> "u"
      [] c = "V" -> "v"
      [] c = "W" -> "w"
      [] c = "X" -> "x"
      [] c = "Y" -> "y"
      [] c = "Z" -> "z"
      [] OTHER -> c

-----------------------------------------------------------------------------
(* Python helpers *)

Get(d, k, default) == IF k \in DOMAIN d THEN d[k] ELSE default

Min(a, b) == IF a <= b THEN a ELSE b

\* sum(1 for i in s if P(i))
Count(s, P(_)) == Cardinality({i \in DOMAIN s : P(s[i])})

\* [i for i in s if P(i)], order kept
SelectList(s, P(_)) == SelectSeq(s, P)

\* str.lower()
Lower(l) == [i \in DOMAIN l |-> LowerChar(l[i])]

\* the substring test "x in l"
Contains(x, l) ==
    \E k \in 0 .. (Len(l) - Len(x)) : SubSeq(l, k + 1, k + Len(x)) = x

\* any(x in l for l in lower for x in words)
AnyIn(words, lower) ==
    \E i \in DOMAIN lower : \E x \in words : Contains(x, lower[i])

-----------------------------------------------------------------------------
(* classify_issue *)

\* A slip in the order of the if/elif chain: the bug test comes first.
classify_issue_bugfirst(labels) ==
    LET lower == [i \in DOMAIN labels |-> Lower(labels[i])]
        is_bug == AnyIn(BUG_WORDS, lower)
        is_feature == AnyIn(FEATURE_WORDS, lower)
        is_security == AnyIn(SECURITY_WORDS, lower)
    IN  [ priority |-> IF is_bug THEN "high"
                       ELSE IF is_security THEN "critical"
                       ELSE IF is_feature THEN "medium"
                       ELSE "low",
          is_bug |-> is_bug,
          is_feature |-> is_feature,
          is_security |-> is_security,
          is_good_first_issue |-> AnyIn(GOOD_FIRST_ISSUE_LABELS, lower),
          is_help_wanted |-> AnyIn(HELP_WANTED_WORDS, lower) ]

classify_issue(labels) ==
    LET lower == [i \in DOMAIN labels |-> Lower(labels[i])]
        is_bug == AnyIn(BUG_WORDS, lower)
        is_feature == AnyIn(FEATURE_WORDS, lower)
        is_security == AnyIn(SECURITY_WORDS, lower)
        is_good_first == AnyIn(GOOD_FIRST_ISSUE_LABELS, lower)
        is_help_wanted == AnyIn(HELP_WANTED_WORDS, lower)
    IN  [ priority |-> IF is_security THEN "critical"
                       ELSE IF is_bug THEN "high"
                       ELSE IF is_feature THEN "medium"
                       ELSE "low",
          is_bug |-> is_bug,
          is_feature |-> is_feature,
          is_security |-> is_security,
          is_good_first_issue |-> is_good_first,
          is_help_wanted |-> is_help_wanted ]

-----------------------------------------------------------------------------
(* Timestamps: the created_at value of a raw issue, and its parsing.       *)
(* A JSON created_at is null, or a string: empty, not a date ("text"), or  *)
(* an ISO-8601 date-time with local time `local` (hours) and a zone suffix *)
(* "Z", "+00:00", "+02:00", or none (a date-time without a zone).          *)

JsonNull == [t |-> "null"]
EmptyString == [t |-> "str", form |-> "empty"]
TextString == [t |-> "str", form |-> "text"]
IsoString(local, suffix) == [t |-> "str", form |-> "iso", local |-> local, suffix |-> suffix]

\* Python truthiness of a created_at value: None and "" are false.
Truthy(c) == c.t = "str" /\ c.form # "empty"

\* created.replace("Z", "+00:00")
replace_Z(c) ==
    IF c.form = "iso" /\ c.suffix = "Z"
    THEN IsoString(c.local, "+00:00")
    ELSE c

\* datetime.fromisoformat: ValueError on a string that is no ISO date-time,
\* an aware datetime for a string with a UTC offset, a naive one without.
\* (A literal "Z" is accepted by Python 3.11 and later; replace_Z never
\* leaves one, so the choice is immaterial here.)
fromisoformat(c) ==
    IF c.form # "iso" THEN [result |-> "ValueError"]
    ELSE IF c.suffix = "" THEN [result |-> "ok", aware |-> FALSE, local |-> c.local]
    ELSE [ result |-> "ok", aware |-> TRUE, local |-> c.local,
           utcoffset |-> IF c.suffix = "+02:00" THEN 2 ELSE 0 ]

\* datetime.now(timezone.utc) - timedelta(days=LOOKBACK_DAYS_NEW), at clock t
Cutoff(t) == [result |-> "ok", aware |-> TRUE, local |-> t - LOOKBACK_DAYS_NEW * 24, utcoffset |-> 0]

\* a > b on datetimes raises TypeError unless both are aware or both naive.
DatetimeCompareRaises(a, b) == a.aware # b.aware

\* a > b on datetimes that compare: aware ones by their UTC instants.
DatetimeGreater(a, b) ==
    IF a.aware THEN (a.local - a.utcoffset) > (b.local - b.utcoffset)
    ELSE a.local > b.local

\* process_issue raises at clock t: the TypeError of the comparison, which
\* the "except ValueError" does not catch.
process_issue_raises(raw, t) ==
    LET created == Get(raw, "created_at", EmptyString)
    IN  /\ Truthy(created)
        /\ LET created_dt == fromisoformat(replace_Z(created))
           IN  /\ created_dt.result = "ok"
               /\ DatetimeCompareRaises(created_dt, Cutoff(t))

\* The is_new block of process_issue at clock t, when it does not raise.
IsNew(raw, t) ==
    LET created == Get(raw, "created_at", EmptyString)
    IN  IF ~Truthy(created) THEN FALSE
        ELSE LET created_dt == fromisoformat(replace_Z(created))
             IN  IF created_dt.result = "ValueError" THEN FALSE
                 ELSE DatetimeGreater(created_dt, Cutoff(t))

\* process_issue reads the clock: datetime.now is reached only after
\* created_at was found non-empty and parsed.
process_issue_reads_clock(raw) ==
    LET created == Get(raw, "created_at", EmptyString)
    IN  Truthy(created) /\ fromisoformat(replace_Z(created)).result = "ok"

\* process_issue at clock t. The fields copied through unchanged and read by
\* no computation (title, url, author, comments, body preview) are left out.
process_issue(raw, repo, category, category_label, t) ==
    LET rawlabels == Get(raw, "labels", << >>)
        labels == [i \in DOMAIN rawlabels |-> Get(rawlabels[i], "name", << >>)]
        classification == classify_issue(labels)
    IN  [ id |-> raw["id"],
          repo |-> repo,
          category |-> category,
          category_label |-> category_label,
          number |-> raw["number"],
          created_at |-> Get(raw, "created_at", EmptyString),
          labels |-> labels,
          is_new |-> IsNew(raw, t),
          priority |-> classification.priority,
          is_bug |-> classification.is_bug,
          is_feature |-> classification.is_feature,
          is_security |-> classification.is_security,
          is_good_first_issue |-> classification.is_good_first_issue,
          is_help_wanted |-> classification.is_help_wanted ]

-----------------------------------------------------------------------------
(* The configuration file data/repos.json *)

Category(key, label, repos) == [key |-> key, label |-> label, icon |-> "i", repos |-> repos]

\* config["categories"] in file order; the keys of a JSON object are distinct.
Configs ==
    { << Category("core", "Core", << "o/r2" >>),
         Category("api", "APIs", << "o/r2", "o/r1", "o/r2" >>) >>,
      << Category("core", "Core", << >>),
         Category("api", "APIs", << "o/r1" >>) >> }

\* ids the server gives the items of each repository
RepoBase(repo) == IF repo = "o/r1" THEN 100 ELSE 200

-----------------------------------------------------------------------------
(* The GitHub server: what the issues endpoint holds for a repository.     *)

T_secbug == [ labels |-> << [name |-> L_Bug], [name |-> L_Security] >>,
              created_at |-> IsoString(33, "Z") ]
T_feature == [ labels |-> << [name |-> L_Enhancement] >>,
               created_at |-> IsoString(35, "+02:00") ]
T_plain == [ created_at |-> EmptyString ]
T_pull == [ labels |-> << [name |-> L_Bug] >>,
            created_at |-> IsoString(190, "Z"),
            pull_request |-> [url |-> "pulls"] ]
T_goodfirst == [ labels |-> << [name |-> L_GoodFirst], [name |-> L_HelpWanted] >>,
                 created_at |-> TextString ]
T_cve == [ labels |-> << [name |-> L_CVE], [name |-> L_Docs] >>,
           created_at |-> IsoString(190, "+00:00") ]
T_noname == [ labels |-> << [color |-> "red"] >>, created_at |-> JsonNull ]
T_old == [ labels |-> << [name |-> L_Debugger] >> ]
T_naive == [ labels |-> << [name |-> L_Docs] >>, created_at |-> IsoString(190, "") ]

\* The lists a repository may hold: n items following a pattern.
ServerLists ==
    { [n |-> 0, pattern |-> << T_plain >>],
      [n |-> 3, pattern |-> << T_secbug, T_pull, T_plain >>],
      [n |-> 2, pattern |-> << T_goodfirst, T_cve >>],
      [n |-> 1, pattern |-> << T_naive >>],
      [n |-> MaxServerIssues, pattern |-> << T_feature, T_old, T_noname >>] }

\* The items of a repository holding list sl, newest first
Items(repo, sl) ==
    [ i \in 1 .. sl.n |->
        LET id == RepoBase(repo) + i
        IN  ("id" :> id) @@ ("number" :> i) @@ sl.pattern[((i - 1) % Len(sl.pattern)) + 1] ]

\* The page the server answers a list request with: at most per_page items.
Page(items, request) == SubSeq(items, 1, Min(Len(items), request.params.per_page))

-----------------------------------------------------------------------------
(* GitHub API client *)

EmptyList == [type |-> "list", v |-> << >>]
EmptyDict == [type |-> "dict", v |-> << >>]
JsonList(v) == [type |-> "list", v |-> v]
JsonDict(v) == [type |-> "dict", v |-> v]

\* Python truthiness of a JSON list or dict
Falsy(j) == DOMAIN j.v = {}

\* The request get_open_issues sends, ignoring its per_page argument.
IssuesRequest_unpaged(owner_repo, per_page) ==
    [ path |-> << "repos", owner_repo, "issues" >>,
      params |-> [state |-> "open", sort |-> "created", direction |-> "desc",
                  per_page |-> 100] ]

\* The request get_open_issues sends.
IssuesRequest(owner_repo, per_page) ==
    [ path |-> << "repos", owner_repo, "issues" >>,
      params |-> [state |-> "open", sort |-> "created", direction |-> "desc",
                  per_page |-> per_page] ]

\* The request get_repo_info sends.
RepoInfoRequest(owner_repo) == [ path |-> << "repos", owner_repo >>, params |-> << >> ]

\* What urlopen may do with a request: a response with headers and a JSON
\* body, an HTTPError with a status code, or any other exception.
Response(headers, body) == [kind |-> "ok", headers |-> headers, body |-> body]
HTTPError(code) == [kind |-> "HTTPError", code |-> code, headers |-> << >>]
OtherException == [kind |-> "Exception"]
\* A 403 carrying the X-RateLimit-Reset header (epoch seconds).
RateLimited(reset) ==
    [kind |-> "HTTPError", code |-> 403, headers |-> ("X-RateLimit-Reset" :> reset)]
\* A body json.loads rejects.
BadJson == [type |-> "invalid"]

\* The rate-limit header of a response: present, or absent (read as 0).
RateHeaders == { "X-RateLimit-Remaining" :> 4999, << >> }
QuotaLeft == "X-RateLimit-Remaining" :> 4999

\* 720090 is 90 seconds after the clock's first reading (hour 200).
Failures ==
    { HTTPError(403), RateLimited(720090), HTTPError(404), HTTPError(500), OtherException,
      Response(<< >>, BadJson) }

IssuesOutcomes(request, repo) ==
    { Response(QuotaLeft, JsonList(Page(Items(repo, sl), request))) : sl \in ServerLists }
    \cup { Response(h, JsonList(<< >>)) : h \in RateHeaders }
    \cup { Response(<< >>, JsonDict([message |-> "moved"])) }
    \cup Failures

RepoInfoOutcomes ==
    { Response(h, JsonDict([open_issues_count |-> 57, stargazers_count |-> 12,
                            forks_count |-> 3, description |-> "d"])) : h \in RateHeaders }
    \cup { Response(QuotaLeft, JsonDict([stargazers_count |-> 12])) }
    \cup Failures

\* GitHub.get whose 404 branch hands back the error document.
GitHub_get_errbody(outcome, rem) ==
    IF outcome.kind = "ok"
    THEN [ value |-> IF outcome.body.type = "invalid" THEN EmptyList ELSE outcome.body,
           remaining |-> Get(outcome.headers, "X-RateLimit-Remaining", 0) ]
    ELSE IF outcome.kind = "HTTPError" /\ outcome.code = 404
         THEN [ value |-> JsonDict([message |-> "Not Found"]), remaining |-> rem ]
         ELSE [ value |-> EmptyList, remaining |-> rem ]

\* GitHub.get: the value returned and GitHub.remaining afterwards.
\* self.remaining is assigned before json.loads, so a response whose body
\* does not parse still sets it.
GitHub_get(outcome, rem) ==
    IF outcome.kind = "ok"
    THEN [ value |-> IF outcome.body.type = "invalid" THEN EmptyList ELSE outcome.body,
           remaining |-> Get(outcome.headers, "X-RateLimit-Remaining", 0) ]
    ELSE [ value |-> EmptyList, remaining |-> rem ]

\* GitHub.get ran one of its except branches.
GetFailed(outcome) == outcome.kind # "ok" \/ outcome.body.type = "invalid"

Max(a, b) == IF a >= b THEN a ELSE b

\* int(time.time()) at clock reading t (hours)
EpochSeconds(t) == t * 3600

\* The wait with min in place of max.
RateLimitWait_min(outcome, rem, t) ==
    IF outcome.kind = "HTTPError" /\ outcome.code = 403 /\ rem < 10
    THEN LET reset == Get(outcome.headers, "X-RateLimit-Reset", 0)
             wait == Min(reset - EpochSeconds(t), 60)
         IN  wait * 1000
    ELSE 0

\* The time GitHub.get sleeps before returning, in milliseconds: on a 403
\* with self.remaining < 10, max(reset - now, 60) seconds.
RateLimitWait(outcome, rem, t) ==
    IF outcome.kind = "HTTPError" /\ outcome.code = 403 /\ rem < 10
    THEN LET reset == Get(outcome.headers, "X-RateLimit-Reset", 0)
             wait == Max(reset - EpochSeconds(t), 60)
         IN  wait * 1000
    ELSE 0

\* The sleep that ends a loop iteration, in milliseconds (lines 240-244).
LoopPause(rem) == IF rem < 50 THEN 5000 ELSE REQUEST_DELAY

\* What the history keeps of one GitHub.get call.
CallSummary(req, outcome, rem, t) ==
    [ request |-> req,
      kind |-> outcome.kind,
      code |-> IF outcome.kind = "HTTPError" THEN outcome.code ELSE 0,
      reset |-> IF outcome.kind = "HTTPError"
                THEN Get(outcome.headers, "X-RateLimit-Reset", 0) ELSE 0,
      at |-> t,
      failed |-> GetFailed(outcome),
      rem_before |-> rem,
      rem_after |-> GitHub_get(outcome, rem).remaining,
      returned_empty_list |-> GitHub_get(outcome, rem).value = EmptyList,
      waited |-> RateLimitWait(outcome, rem, t) ]

NoCall == [kind |-> "none"]

\* get_repo_info: self.get(...) or {}
get_repo_info(value) == IF Falsy(value) THEN EmptyDict ELSE value

NotPull(i) == "pull_request" \notin DOMAIN i

\* The list comprehension of get_open_issues without its condition.
FilterPulls_keepall(items) == items

\* [i for i in items if "pull_request" not in i]
FilterPulls(items) == SelectList(items, NotPull)

\* get_open_issues, from the value self.get returned
get_open_issues(value) ==
    IF value.type # "list" THEN << >> ELSE FilterPulls(value.v)

-----------------------------------------------------------------------------
(* fetch_all: de-duplication of the configured repositories *)

\* (repo, category) pairs in the order the two nested loops visit them
RECURSIVE Flatten(_)
Flatten(cats) ==
    IF cats = << >> THEN << >>
    ELSE LET c == Head(cats)
         IN  [i \in DOMAIN c.repos |-> [repo |-> c.repos[i], key |-> c.key, label |-> c.label]]
             \o Flatten(Tail(cats))

\* A repo_to_category whose loop overwrites: the last category listing a repo wins.
RepoToCategory_lastwins(cats) ==
    LET flat == Flatten(cats)
        last(r) == CHOOSE i \in DOMAIN flat :
                      flat[i].repo = r /\ \A j \in DOMAIN flat : j > i => flat[j].repo # r
    IN  [ r \in {flat[i].repo : i \in DOMAIN flat} |->
            << flat[last(r)].key, flat[last(r)].label >> ]

\* repo_to_category: the first category listing a repo wins
RepoToCategory(cats) ==
    LET flat == Flatten(cats)
        first(r) == CHOOSE i \in DOMAIN flat :
                      flat[i].repo = r /\ \A j \in DOMAIN flat : j < i => flat[j].repo # r
    IN  [ r \in {flat[i].repo : i \in DOMAIN flat} |->
            << flat[first(r)].key, flat[first(r)].label >> ]

RECURSIVE KeysInOrder(_, _)
KeysInOrder(flat, seen) ==
    IF flat = << >> THEN << >>
    ELSE IF Head(flat).repo \in seen THEN KeysInOrder(Tail(flat), seen)
         ELSE << Head(flat).repo >> \o KeysInOrder(Tail(flat), seen \cup {Head(flat).repo})

Reverse(s) == [i \in DOMAIN s |-> s[Len(s) + 1 - i]]

\* The keys of repo_to_category in an order other than insertion order.
UniqueRepos_reversed(cats) == Reverse(KeysInOrder(Flatten(cats), {}))

\* unique_repos = list(repo_to_category.keys()): insertion order
UniqueRepos(cats) == KeysInOrder(Flatten(cats), {})

-----------------------------------------------------------------------------
(* fetch_all: statistics *)

IsNewFlag(i) == i.is_new
IsBug(i) == i.is_bug
IsFeature(i) == i.is_feature
IsSecurity(i) == i.is_security
IsGoodFirst(i) == i.is_good_first_issue
IsHelpWanted(i) == i.is_help_wanted

\* The value of repo_stats[repo]
RepoStatsEntry(cat_key, cat_label, repo_info, processed) ==
    LET isdict == repo_info.type = "dict"
    IN  [ category |-> cat_key,
          category_label |-> cat_label,
          total_open_issues |-> IF isdict
                                THEN Get(repo_info.v, "open_issues_count", Len(processed))
                                ELSE Len(processed),
          stars |-> IF isdict THEN Get(repo_info.v, "stargazers_count", 0) ELSE 0,
          forks |-> IF isdict THEN Get(repo_info.v, "forks_count", 0) ELSE 0,
          description |-> IF isdict THEN Get(repo_info.v, "description", "") ELSE "",
          fetched_issues |-> Len(processed),
          new_issues |-> Count(processed, IsNewFlag),
          bugs |-> Count(processed, IsBug),
          features |-> Count(processed, IsFeature),
          good_first_issues |-> Count(processed, IsGoodFirst),
          help_wanted |-> Count(processed, IsHelpWanted) ]

\* by_priority counted from the flags instead of the priority field.
ByPriority_flags(issues) ==
    LET med(i) == i.is_feature
        low(i) == ~(i.is_security \/ i.is_bug \/ i.is_feature)
    IN  [ critical |-> Count(issues, IsSecurity),
          high |-> Count(issues, IsBug),
          medium |-> Count(issues, med),
          low |-> Count(issues, low) ]

\* stats["by_priority"]
ByPriority(issues) ==
    LET crit(i) == i.priority = "critical"
        high(i) == i.priority = "high"
        med(i) == i.priority = "medium"
        low(i) == i.priority = "low"
    IN  [ critical |-> Count(issues, crit),
          high |-> Count(issues, high),
          medium |-> Count(issues, med),
          low |-> Count(issues, low) ]

\* by_category with total_repos counting each listed repository once.
CategoryStats_distinct(cat_data, issues) ==
    LET incat(i) == i.category = cat_data.key
        cat_issues == SelectList(issues, incat)
    IN  [ label |-> cat_data.label,
          icon |-> cat_data.icon,
          total_repos |-> Cardinality({cat_data.repos[i] : i \in DOMAIN cat_data.repos}),
          total_issues |-> Len(cat_issues),
          new_issues |-> Count(cat_issues, IsNewFlag),
          good_first_issues |-> Count(cat_issues, IsGoodFirst) ]

\* stats["by_category"][cat_key]
CategoryStats(cat_data, issues) ==
    LET incat(i) == i.category = cat_data.key
        cat_issues == SelectList(issues, incat)
    IN  [ label |-> cat_data.label,
          icon |-> cat_data.icon,
          total_repos |-> Len(cat_data.repos),
          total_issues |-> Len(cat_issues),
          new_issues |-> Count(cat_issues, IsNewFlag),
          good_first_issues |-> Count(cat_issues, IsGoodFirst) ]

\* The stats dict
AggregateStats(categories, total, issues, rstats, t) ==
    [ generated_at |-> t,
      lookback_days_new |-> LOOKBACK_DAYS_NEW,
      total_repos |-> total,
      total_issues_fetched |-> Len(issues),
      total_new_issues |-> Count(issues, IsNewFlag),
      total_bugs |-> Count(issues, IsBug),
      total_features |-> Count(issues, IsFeature),
      total_security |-> Count(issues, IsSecurity),
      total_good_first_issues |-> Count(issues, IsGoodFirst),
      total_help_wanted |-> Count(issues, IsHelpWanted),
      by_priority |-> ByPriority(issues),
      by_category |-> [ k \in {categories[c].key : c \in DOMAIN categories} |->
                          LET c == CHOOSE c \in DOMAIN categories : categories[c].key = k
                          IN  CategoryStats(categories[c], issues) ],
      repos |-> rstats ]

NoStats == [computed |-> FALSE]

\* all_issues.extend(processed) written as an assignment.
Extend_assign(list, processed) == processed

\* all_issues.extend(processed)
Extend(list, processed) == list \o processed

-----------------------------------------------------------------------------
(* Output files. A file is the sequence of JSON documents it holds: none   *)
(* when it does not exist, one after open(path, "w") and json.dump.        *)

\* open(path, "a") in place of "w"
json_dump_a(old, doc) == Append(old, doc)

\* with open(path, "w") as f: json.dump(doc, f)
json_dump_w(old, doc) == << doc >>

StaleIssue ==
    [ id |-> 999, repo |-> "o/gone", category |-> "old", category_label |-> "Old",
      number |-> 9, created_at |-> IsoString(1, "Z"), labels |-> << L_Bug >>,
      is_new |-> TRUE, priority |-> "high", is_bug |-> TRUE, is_feature |-> FALSE,
      is_security |-> FALSE, is_good_first_issue |-> FALSE, is_help_wanted |-> FALSE ]

\* What the data directory may hold when a run starts: nothing, or the
\* output of an earlier run over another configuration.
PriorFiles ==
    { [ issues |-> << >>, stats |-> << >>, by_repo |-> << >> ],
      [ issues |-> << << StaleIssue >> >>,
        stats |-> << [total_repos |-> 1, total_issues_fetched |-> 1] >>,
        by_repo |-> << ("o/gone" :> << StaleIssue >>) >> ] }

-----------------------------------------------------------------------------
(* fetch_all as a process *)

\* datetime.now(timezone.utc): a reading of the clock, not earlier than the
\* last one (the variable now).
ClockReadings == { t \in now .. (now + 1) : t <= 200 + MaxTicks }

Init ==
    /\ cfg \in Configs
    /\ now = 200
    /\ pc = "start"
    /\ repo_to_category = << >>
    /\ unique_repos = << >>
    /\ idx = 0
    /\ remaining = 5000
    /\ all_issues = << >>
    /\ issues_by_repo = << >>
    /\ repo_stats = << >>
    /\ stats = NoStats
    /\ files \in PriorFiles
    /\ inflight = {}
    /\ reqlog = << >>
    /\ raw_by_repo = << >>
    /\ proc_time = << >>
    /\ prior_files = files
    /\ failed_requests = {}
    /\ last_call = NoCall
    /\ slept = 0
    /\ last_gap = 0

\* Lines 193-212: load the configuration, de-duplicate, construct the client
\* and the empty accumulators.
LoadConfig ==
    /\ pc = "start"
    /\ repo_to_category' = RepoToCategory(cfg)
    /\ unique_repos' = UniqueRepos(cfg)
    /\ remaining' = 5000
    /\ all_issues' = << >>
    /\ issues_by_repo' = << >>
    /\ repo_stats' = << >>
    /\ idx' = 1
    /\ pc' = "loop"
    /\ UNCHANGED << cfg, now, stats, files, inflight, reqlog, raw_by_repo, proc_time,
                    prior_files, failed_requests, last_call, slept, last_gap >>

\* Line 218, first half: get_open_issues sends its request.
SendIssuesRequest ==
    /\ pc = "loop"
    /\ idx <= Len(unique_repos)
    /\ LET req == IssuesRequest(unique_repos[idx], MAX_ISSUES_PER_REPO)
       IN  /\ inflight' = inflight \cup {req}
           /\ reqlog' = Append(reqlog, req)
    /\ last_gap' = slept
    /\ slept' = 0
    /\ pc' = "issues_wait"
    /\ UNCHANGED << cfg, now, repo_to_category, unique_repos, idx, remaining, all_issues,
                    issues_by_repo, repo_stats, stats, files, raw_by_repo, proc_time,
                    prior_files, failed_requests, last_call >>

\* Lines 218-221: the issues request is answered; the items are filtered,
\* processed and stored. An exception out of process_issue ends the run.
RecvIssues ==
    /\ pc = "issues_wait"
    /\ \E req \in inflight :
       \E outcome \in IssuesOutcomes(req, unique_repos[idx]) :
       \E t \in (IF \/ RateLimitWait(outcome, remaining, now) > 0
                    \/ \E i \in DOMAIN get_open_issues(GitHub_get(outcome, remaining).value) :
                          process_issue_reads_clock(
                              get_open_issues(GitHub_get(outcome, remaining).value)[i])
                 THEN ClockReadings ELSE {now}) :
          LET repo == unique_repos[idx]
              cat_key == repo_to_category[repo][1]
              cat_label == repo_to_category[repo][2]
              got == GitHub_get(outcome, remaining)
              raw_issues == get_open_issues(got.value)
              processed == [ i \in DOMAIN raw_issues |->
                               process_issue(raw_issues[i], repo, cat_key, cat_label, t) ]
          IN  /\ inflight' = inflight \ {req}
              /\ remaining' = got.remaining
              /\ last_call' = CallSummary(req, outcome, remaining, t)
              /\ failed_requests' = IF GetFailed(outcome) THEN failed_requests \cup {req}
                                    ELSE failed_requests
              /\ slept' = slept + RateLimitWait(outcome, remaining, t)
              /\ raw_by_repo' = (repo :> got.value) @@ raw_by_repo
              /\ now' = t
              /\ proc_time' = (repo :> t) @@ proc_time
              /\ IF \E i \in DOMAIN raw_issues : process_issue_raises(raw_issues[i], t)
                 THEN /\ pc' = "crashed"
                      /\ UNCHANGED << all_issues, issues_by_repo >>
                 ELSE /\ pc' = "repo_info"
                      /\ all_issues' = Extend(all_issues, processed)
                      /\ issues_by_repo' = (repo :> processed) @@ issues_by_repo
    /\ UNCHANGED << cfg, repo_to_category, unique_repos, idx, repo_stats, stats,
                    files, reqlog, prior_files, last_gap >>

\* Line 224, first half: get_repo_info sends its request.
SendRepoInfoRequest ==
    /\ pc = "repo_info"
    /\ LET req == RepoInfoRequest(unique_repos[idx])
       IN  /\ inflight' = inflight \cup {req}
           /\ reqlog' = Append(reqlog, req)
    /\ last_gap' = slept
    /\ slept' = 0
    /\ pc' = "info_wait"
    /\ UNCHANGED << cfg, now, repo_to_category, unique_repos, idx, remaining, all_issues,
                    issues_by_repo, repo_stats, stats, files, raw_by_repo, proc_time,
                    prior_files, failed_requests, last_call >>

\* Lines 224-244: the repo-info request is answered, repo_stats[repo] is
\* stored, the loop sleeps and moves to the next repository.
RecvRepoInfo ==
    /\ pc = "info_wait"
    /\ \E req \in inflight :
       \E outcome \in RepoInfoOutcomes :
       \E t \in (IF RateLimitWait(outcome, remaining, now) > 0 THEN ClockReadings ELSE {now}) :
          LET repo == unique_repos[idx]
              got == GitHub_get(outcome, remaining)
              repo_info == get_repo_info(got.value)
          IN  /\ inflight' = inflight \ {req}
              /\ remaining' = got.remaining
              /\ now' = t
              /\ last_call' = CallSummary(req, outcome, remaining, t)
              /\ failed_requests' = IF GetFailed(outcome) THEN failed_requests \cup {req}
                                    ELSE failed_requests
              /\ slept' = slept + RateLimitWait(outcome, remaining, t)
                                + LoopPause(got.remaining)
              /\ repo_stats' = (repo :> RepoStatsEntry(repo_to_category[repo][1],
                                                       repo_to_category[repo][2],
                                                       repo_info, issues_by_repo[repo]))
                               @@ repo_stats
    /\ idx' = idx + 1
    /\ pc' = "loop"
    /\ UNCHANGED << cfg, repo_to_category, unique_repos, all_issues, issues_by_repo,
                    stats, files, reqlog, raw_by_repo, proc_time, prior_files, last_gap >>

\* Lines 249-280: the aggregate stats, after the loop.
Aggregate ==
    /\ pc = "loop"
    /\ idx > Len(unique_repos)
    /\ \E t \in ClockReadings :
          /\ now' = t
          /\ stats' = AggregateStats(cfg, Len(unique_repos), all_issues, repo_stats, t)
    /\ pc' = "write"
    /\ UNCHANGED << cfg, repo_to_category, unique_repos, idx, remaining, all_issues,
                    issues_by_repo, repo_stats, files, inflight, reqlog, raw_by_repo,
                    proc_time, prior_files, failed_requests, last_call, slept, last_gap >>

\* Lines 285-297: the three output files are written.
WriteOutputs ==
    /\ pc = "write"
    /\ files' = [ issues |-> json_dump_w(files.issues, all_issues),
                  stats |-> json_dump_w(files.stats, stats),
                  by_repo |-> json_dump_w(files.by_repo, issues_by_repo) ]
    /\ pc' = "done"
    /\ UNCHANGED << cfg, now, repo_to_category, unique_repos, idx, remaining, all_issues,
                    issues_by_repo, repo_stats, stats, inflight, reqlog, raw_by_repo,
                    proc_time, prior_files, failed_requests, last_call, slept, last_gap >>

Next ==
    \/ LoadConfig
    \/ SendIssuesRequest
    \/ RecvIssues
    \/ SendRepoInfoRequest
    \/ RecvRepoInfo
    \/ Aggregate
    \/ WriteOutputs

Spec == Init /\ [][Next]_vars

-----------------------------------------------------------------------------
(* Properties *)

RECURSIVE SumFn(_, _)
\* the sum of f[x] over the x in S
SumFn(f, S) ==
    IF S = {} THEN 0
    ELSE LET x == CHOOSE x \in S : TRUE IN f[x] + SumFn(f, S \ {x})

Range(s) == {s[i] : i \in DOMAIN s}

StatsComputed == pc \in {"write", "done"}

\* The repositories the configuration lists, and for each the position of the
\* first category that lists it.
ConfiguredRepos == UNION {Range(cfg[c].repos) : c \in DOMAIN cfg}
FirstCategory(r) ==
    CHOOSE c \in DOMAIN cfg :
        /\ r \in Range(cfg[c].repos)
        /\ \A d \in DOMAIN cfg : d < c => r \notin Range(cfg[d].repos)
\* The position at which the configuration first lists r, counting through
\* the categories in order.
FirstPosition(r) ==
    LET c == FirstCategory(r)
        before == SumFn([d \in DOMAIN cfg |-> Len(cfg[d].repos)], {d \in DOMAIN cfg : d < c})
        within == CHOOSE i \in DOMAIN cfg[c].repos :
                     /\ cfg[c].repos[i] = r
                     /\ \A j \in DOMAIN cfg[c].repos : j < i => cfg[c].repos[j] # r
    IN  before + within

\* C1: every issue record's priority follows from its flags by strict
\* precedence: critical if security, else high if bug, else medium if
\* feature, else low; security and bug together give critical, and a record
\* without labels is low.
C1_PriorityPrecedence ==
    \A k \in DOMAIN all_issues :
        LET i == all_issues[k]
        IN  /\ i.is_security => i.priority = "critical"
            /\ (~i.is_security /\ i.is_bug) => i.priority = "high"
            /\ (~i.is_security /\ ~i.is_bug /\ i.is_feature) => i.priority = "medium"
            /\ (~i.is_security /\ ~i.is_bug /\ ~i.is_feature) => i.priority = "low"
            /\ i.labels = << >> => i.priority = "low"

C1_Witness ==
    /\ \E k \in DOMAIN all_issues :
          all_issues[k].is_security /\ all_issues[k].is_bug
          /\ all_issues[k].priority = "critical"
    /\ \E k \in DOMAIN all_issues :
          all_issues[k].labels = << >> /\ all_issues[k].priority = "low"

\* C2: after a completed run each of the three output files holds exactly
\* the document this run computed (all_issues, stats, issues_by_repo), every
\* record of which comes from an item this run's API responses carried and
\* every repository of which is one this run processed; nothing of the
\* files' earlier content is left.
C2_OutputReplaced ==
    pc = "done" =>
        /\ files.issues = << all_issues >>
        /\ files.stats = << stats >>
        /\ files.by_repo = << issues_by_repo >>
        /\ \A d \in Range(files.issues) : \A k \in DOMAIN d :
              /\ d[k].repo \in DOMAIN raw_by_repo
              /\ \E j \in DOMAIN raw_by_repo[d[k].repo].v :
                    raw_by_repo[d[k].repo].v[j]["id"] = d[k].id
        /\ \A d \in Range(files.by_repo) : DOMAIN d = Range(unique_repos)
        /\ \A d \in Range(files.stats) :
              /\ DOMAIN d.repos = Range(unique_repos)
              /\ d.total_issues_fetched = Len(all_issues)

C2_Witness ==
    /\ pc = "done"
    /\ prior_files.issues # << >>
    /\ all_issues # << >>
    /\ files.issues = << all_issues >>

\* C3: in the aggregate stats the four by_priority counts add up to
\* total_issues_fetched, every fetched issue having exactly one of the four
\* priorities.
C3_PriorityPartition ==
    StatsComputed =>
        /\ \A k \in DOMAIN all_issues :
              all_issues[k].priority \in {"critical", "high", "medium", "low"}
        /\ stats.by_priority.critical + stats.by_priority.high
             + stats.by_priority.medium + stats.by_priority.low
           = stats.total_issues_fetched
        /\ stats.total_issues_fetched = Len(all_issues)

C3_Witness ==
    /\ StatsComputed
    /\ stats.by_priority.critical > 0
    /\ stats.by_priority.high > 0
    /\ stats.by_priority.medium > 0
    /\ stats.by_priority.low > 0

\* C4: no repository keeps more than MAX_ISSUES_PER_REPO = 30 issue records
\* (its list in issues_by_repo and its fetched_issues), and
\* total_issues_fetched is at most 30 times the number of unique repositories.
C4_PerRepoCap ==
    /\ \A r \in DOMAIN issues_by_repo : Len(issues_by_repo[r]) <= MAX_ISSUES_PER_REPO
    /\ \A r \in DOMAIN repo_stats : repo_stats[r].fetched_issues <= MAX_ISSUES_PER_REPO
    /\ StatsComputed =>
          stats.total_issues_fetched <= MAX_ISSUES_PER_REPO * stats.total_repos

\* A repository holding more than 30 items on the server, of which 30 are kept.
C4_Witness ==
    /\ MaxServerIssues > MAX_ISSUES_PER_REPO
    /\ \E r \in DOMAIN repo_stats :
          /\ repo_stats[r].fetched_issues = MAX_ISSUES_PER_REPO
          /\ Len(raw_by_repo[r].v) = MAX_ISSUES_PER_REPO

\* C5: at most one request is in flight at any moment; the requests are
\* sent repository by repository in configuration order, for each
\* repository the issues request and then the repo-info request, and a
\* request is sent only when every earlier one has been answered.
C5_Sequential ==
    /\ Cardinality(inflight) <= 1
    /\ inflight \subseteq {reqlog[k] : k \in {Len(reqlog)} \cap DOMAIN reqlog}
    /\ \A k \in DOMAIN reqlog :
          LET repo == reqlog[k].path[2]
          IN  /\ repo \in ConfiguredRepos
              /\ (k % 2 = 1) => /\ Len(reqlog[k].path) = 3
                                /\ reqlog[k].path[3] = "issues"
              /\ (k % 2 = 0) => /\ Len(reqlog[k].path) = 2
                                /\ reqlog[k - 1].path[2] = repo
              /\ \A j \in DOMAIN reqlog :
                    (j < k /\ reqlog[j].path[2] # repo) =>
                        FirstPosition(reqlog[j].path[2]) < FirstPosition(repo)
    /\ \A j, k \in DOMAIN reqlog : j # k => reqlog[j] # reqlog[k]

\* The second repository's issues request is in flight, the first
\* repository's two requests answered.
C5_Witness ==
    /\ Len(reqlog) = 3
    /\ inflight = {reqlog[3]}
    /\ reqlog[3].path[2] # reqlog[1].path[2]

\* The positions of the items of a response that are not pull requests.
NonPullPositions(value) ==
    IF value.type # "list" THEN {}
    ELSE {i \in DOMAIN value.v : "pull_request" \notin DOMAIN value.v[i]}

\* C6: the records kept for a repository are exactly the items of its API
\* response that have no pull_request key, in the response's order; no
\* record anywhere comes from a pull request and the stats count none.
C6_NoPullRequests ==
    /\ \A r \in DOMAIN issues_by_repo :
          LET keep == NonPullPositions(raw_by_repo[r])
              nth(k) == CHOOSE i \in keep : Cardinality({j \in keep : j < i}) = k - 1
          IN  /\ Len(issues_by_repo[r]) = Cardinality(keep)
              /\ \A k \in DOMAIN issues_by_repo[r] :
                    issues_by_repo[r][k].id = raw_by_repo[r].v[nth(k)]["id"]
    /\ \A k \in DOMAIN all_issues :
          LET rec == all_issues[k]
          IN  \A j \in DOMAIN raw_by_repo[rec.repo].v :
                 raw_by_repo[rec.repo].v[j]["id"] = rec.id
                    => "pull_request" \notin DOMAIN raw_by_repo[rec.repo].v[j]
    /\ StatsComputed =>
          stats.total_issues_fetched
            = SumFn([r \in DOMAIN issues_by_repo |->
                        Cardinality(NonPullPositions(raw_by_repo[r]))],
                    DOMAIN issues_by_repo)

\* A response carrying a pull request between two issues, both issues kept.
C6_Witness ==
    \E r \in DOMAIN issues_by_repo :
        /\ raw_by_repo[r].type = "list"
        /\ Len(raw_by_repo[r].v) = 3
        /\ "pull_request" \in DOMAIN raw_by_repo[r].v[2]
        /\ Len(issues_by_repo[r]) = 2

\* C7: total_issues_fetched, total_new_issues, total_bugs, total_features,
\* total_good_first_issues and total_help_wanted each equal the sum over the
\* repositories of the per-repo count.
C7_TotalsAgree ==
    StatsComputed =>
        LET R == DOMAIN stats.repos
            sum(field) == SumFn([r \in R |-> stats.repos[r][field]], R)
        IN  /\ stats.total_issues_fetched = sum("fetched_issues")
            /\ stats.total_new_issues = sum("new_issues")
            /\ stats.total_bugs = sum("bugs")
            /\ stats.total_features = sum("features")
            /\ stats.total_good_first_issues = sum("good_first_issues")
            /\ stats.total_help_wanted = sum("help_wanted")

\* Two repositories, each contributing issues and bugs.
C7_Witness ==
    /\ StatsComputed
    /\ Cardinality(DOMAIN stats.repos) = 2
    /\ \A r \in DOMAIN stats.repos :
          stats.repos[r].fetched_issues > 0 /\ stats.repos[r].bugs > 0
    /\ stats.total_new_issues > 0

\* C8: each category's total_repos in by_category is the number of
\* repositories attributed to that category in the run, so the by_category
\* total_repos values add up to the global total_repos.
C8_CategoryRepoCounts ==
    StatsComputed =>
        /\ \A k \in DOMAIN stats.by_category :
              stats.by_category[k].total_repos
                = Cardinality({r \in DOMAIN stats.repos : stats.repos[r].category = k})
        /\ SumFn([k \in DOMAIN stats.by_category |-> stats.by_category[k].total_repos],
                 DOMAIN stats.by_category)
           = stats.total_repos

\* The number of entries of all the categories' repos lists together.
ListedEntries == SumFn([c \in DOMAIN cfg |-> Len(cfg[c].repos)], DOMAIN cfg)

\* C8 as amended: each category's total_repos in by_category is the length
\* of that category's configured repos list, repeated entries included; the
\* values add up to the global total_repos exactly when no repository is
\* listed twice in the configuration, and exceed it otherwise.
C8_CategoryReposListed ==
    StatsComputed =>
        LET total == SumFn([k \in DOMAIN stats.by_category |->
                               stats.by_category[k].total_repos],
                           DOMAIN stats.by_category)
        IN  /\ \A c \in DOMAIN cfg :
                  stats.by_category[cfg[c].key].total_repos = Len(cfg[c].repos)
            /\ total >= stats.total_repos
            /\ (total = stats.total_repos) <=> (ListedEntries = Cardinality(ConfiguredRepos))

\* A category listing one repository twice and another listed once, after
\* aggregation: three listed, two unique.
C8_Witness ==
    /\ StatsComputed
    /\ \E k \in DOMAIN stats.by_category : stats.by_category[k].total_repos = 3
    /\ stats.total_repos = 2

\* C9: a repository is fetched once per run however many categories list
\* it: no request is sent twice, unique_repos holds every configured
\* repository exactly once, a completed loop leaves exactly one repo_stats
\* and one issues_by_repo entry per configured repository, and every issue
\* record and repo_stats entry carries the key and label of the first
\* category, in configuration order, that lists its repository.
C9_Deduplicated ==
    /\ \A j, k \in DOMAIN reqlog : j # k => reqlog[j] # reqlog[k]
    /\ pc # "start" =>
          /\ Range(unique_repos) = ConfiguredRepos
          /\ Len(unique_repos) = Cardinality(ConfiguredRepos)
    /\ StatsComputed =>
          /\ DOMAIN repo_stats = ConfiguredRepos
          /\ DOMAIN issues_by_repo = ConfiguredRepos
          /\ Len(reqlog) = 2 * Cardinality(ConfiguredRepos)
    /\ \A k \in DOMAIN all_issues :
          LET rec == all_issues[k]
          IN  /\ rec.category = cfg[FirstCategory(rec.repo)].key
              /\ rec.category_label = cfg[FirstCategory(rec.repo)].label
    /\ \A r \in DOMAIN issues_by_repo : \A k \in DOMAIN issues_by_repo[r] :
          /\ issues_by_repo[r][k].repo = r
          /\ issues_by_repo[r][k].category = cfg[FirstCategory(r)].key
    /\ \A r \in DOMAIN repo_stats :
          repo_stats[r].category = cfg[FirstCategory(r)].key

\* A repository listed under two categories, fetched, with issue records.
C9_Witness ==
    /\ StatsComputed
    /\ \E r \in ConfiguredRepos :
          /\ Cardinality({c \in DOMAIN cfg : r \in Range(cfg[c].repos)}) = 2
          /\ issues_by_repo[r] # << >>

\* The instant (UTC, hours) a created_at value denotes, when it denotes one.
DenotesInstant(c) == c.t = "str" /\ c.form = "iso"
InstantOf(c) ==
    c.local - (IF c.suffix = "+02:00" THEN 2 ELSE 0)

\* C10: processing never fails on a created_at value, and is_new is true
\* exactly when created_at parses as a date-time strictly later than the
\* processing time minus LOOKBACK_DAYS_NEW = 7 days.
C10_IsNewWindow ==
    /\ pc # "crashed"
    /\ \A k \in DOMAIN all_issues :
          LET rec == all_issues[k]
          IN  rec.is_new
                <=> /\ DenotesInstant(rec.created_at)
                    /\ InstantOf(rec.created_at) > proc_time[rec.repo] - 7 * 24

\* The is_new half of C10 alone, over the records that were produced.
C10_IsNewOfRecords ==
    \A k \in DOMAIN all_issues :
        LET rec == all_issues[k]
        IN  rec.is_new
              <=> /\ DenotesInstant(rec.created_at)
                  /\ InstantOf(rec.created_at) > proc_time[rec.repo] - 7 * 24

\* C11: a failed request (any HTTP error status, any other exception) makes
\* GitHub.get return an empty list and never ends the run; once the loop is
\* over every configured repository has its repo_stats and issues_by_repo
\* entry; a repository whose issues request failed has an empty issue list,
\* and one whose two requests failed has zero per-repo counts, stars =
\* forks = 0 and total_open_issues = 0.
C11_FailuresTolerated ==
    /\ (last_call.kind # "none" /\ last_call.failed) =>
          /\ last_call.returned_empty_list
          /\ pc # "crashed"
    /\ \A r \in Range(unique_repos) :
          IssuesRequest(r, MAX_ISSUES_PER_REPO) \in failed_requests =>
              r \in DOMAIN issues_by_repo /\ issues_by_repo[r] = << >>
    /\ \A r \in DOMAIN repo_stats :
          ({IssuesRequest(r, MAX_ISSUES_PER_REPO), RepoInfoRequest(r)} \subseteq failed_requests)
            => /\ repo_stats[r].fetched_issues = 0
               /\ repo_stats[r].new_issues = 0
               /\ repo_stats[r].bugs = 0
               /\ repo_stats[r].features = 0
               /\ repo_stats[r].good_first_issues = 0
               /\ repo_stats[r].help_wanted = 0
               /\ repo_stats[r].stars = 0
               /\ repo_stats[r].forks = 0
               /\ repo_stats[r].total_open_issues = 0
    /\ StatsComputed =>
          /\ DOMAIN repo_stats = ConfiguredRepos
          /\ DOMAIN issues_by_repo = ConfiguredRepos
          /\ DOMAIN stats.repos = ConfiguredRepos

\* A run over two repositories all four of whose requests failed, the last
\* with a 404, completed.
C11_Witness ==
    /\ pc = "done"
    /\ Len(reqlog) = 4
    /\ failed_requests = Range(reqlog)
    /\ last_call.kind = "HTTPError" /\ last_call.code = 404

\* C12: between any two consecutive requests of a run the fetcher sleeps at
\* least REQUEST_DELAY (0.5 s), and at least 5 s before the first request of
\* a repository when the recorded remaining quota was below 50 after the
\* repository before it.
C12_PauseBetweenRequests ==
    Len(reqlog) >= 2 =>
        /\ last_gap >= REQUEST_DELAY
        /\ (pc = "issues_wait" /\ remaining < 50) => last_gap >= 5000

\* The part of C12 that the loop provides: the pause before the first
\* request of every repository but the first.
C12_PauseBetweenRepositories ==
    (pc = "issues_wait" /\ Len(reqlog) >= 3) =>
        /\ last_gap >= REQUEST_DELAY
        /\ remaining < 50 => last_gap >= 5000

\* C13: a 403 answered while the recorded remaining quota is below 10 makes
\* GitHub.get sleep max(reset - now, 60) seconds, so at least 60, before it
\* returns; every 403 returns an empty list and the request is not sent
\* again; the recorded remaining quota changes only on a call that received
\* a successful response.
C13_RateLimitWait ==
    /\ last_call.kind # "none" =>
          /\ remaining = last_call.rem_after
          /\ last_call.rem_after # last_call.rem_before => last_call.kind = "ok"
    /\ (last_call.kind = "HTTPError" /\ last_call.code = 403) =>
          /\ last_call.returned_empty_list
          /\ last_call.rem_after = last_call.rem_before
          /\ last_call.request \notin inflight
          /\ last_call.rem_before < 10 =>
                LET ahead == last_call.reset - last_call.at * 3600
                IN  /\ last_call.waited = (IF ahead > 60 THEN ahead ELSE 60) * 1000
                    /\ last_call.waited >= 60 * 1000
    /\ \A j, k \in DOMAIN reqlog : j # k => reqlog[j] # reqlog[k]
    /\ Cardinality(inflight) + Cardinality({k \in DOMAIN reqlog : reqlog[k] \notin inflight})
         = Len(reqlog)

\* A 403 whose reset lies 90 seconds ahead, answered with no quota left:
\* a wait of 90 seconds, the quota as it was.
C13_Witness ==
    /\ last_call.kind = "HTTPError"
    /\ last_call.code = 403
    /\ last_call.rem_before < 10
    /\ last_call.waited = 90 * 1000
    /\ remaining = last_call.rem_before

=============================================================================
